---- MODULE Spec2Model ----
(***************************************************************************)
(* Model of ctf_sql: the driver selection done at package import           *)
(* (ctf_sql/__init__.py) and the injection shim FakeConnection/FakeCursor  *)
(* (ctf_sql/fake_MySqldb.py).                                              *)
(*                                                                         *)
(* Text is modelled as a sequence of one-character strings, so that        *)
(* counting, splitting and concatenation are computed character by         *)
(* character as the Python code computes them.                             *)
(***************************************************************************)
EXTENDS Integers, Sequences, FiniteSets, TLC

\* ------------------------------------------------------------------------
\* Bounds of the model
\* ------------------------------------------------------------------------
\* longest query template given to execute
MaxTplLen == 5
\* longest query template given to executemany
MaxManyTplLen == 4
\* longest parameter sequence of one call / one group
MaxParams == 2
\* most parameter groups an executemany iterable yields
MaxGroups == 3
\* largest affected-row count the real cursor reports
MaxRows == 1
\* longest CTF_MODE text
MaxModeLen == 3
\* largest value of a data attribute of the real object
MaxAttrVal == 1
\* most calls that reach the wrapped real object in one run
MaxCalls == 2

\* ------------------------------------------------------------------------
\* State
\* ------------------------------------------------------------------------
VARIABLES
    kw,        \* the sanitizer keyword the caller gives to connect
    realKw,    \* what MySQLdb.connect received
    _conn,     \* FakeConnection._conn
    _cur,      \* FakeCursor._cur
    pc,        \* position of the caller in its one call on the cursor
    op,        \* the cursor operation called
    query,     \* its query argument
    params,    \* execute's params argument
    groups,    \* the groups executemany has taken from seq_of_params so far
    sent,      \* the SQL texts passed to the real cursor's execute, in order
    resps,     \* what the real cursor answered to each of them
    count,     \* executemany's local count
    result,    \* the value returned to the caller
    err,       \* the exception raised to the caller
    \* -- package import (ctf_sql/__init__.py)
    builtinsCTF,   \* builtins.CTF_MODE: absent, or a value
    envCTF,        \* the CTF_MODE environment variable: absent, or a text
    imported,      \* the package body has run
    MODE,          \* the resolved mode
    MySql,         \* the driver module bound to the name MySql
    DB_HOST,       \* each exported constant holds the name of the attribute
    DB_USER,       \*   of the constants module it was bound to
    DB_PASS,
    DB_NAME,
    SESSION_NAME,
    \* -- attribute access on a shim object
    shim,          \* the shim in use: a FakeCursor or a FakeConnection
    realData,      \* the wrapped real object's data attributes
    shimDict,      \* names set on the shim instance itself, with their values
    realCalls,     \* the methods invoked on the wrapped real object, in order
    lastOp,        \* the last access made through the shim
    shimOut,       \* its outcome through the shim
    directOut,     \* the outcome of the same access made on the real object
    directData     \* the real object's data attributes after that direct access

cursorVars ==
    <<kw, realKw, _conn, _cur, pc, op, query, params, groups, sent, resps,
      count, result, err>>

modeVars ==
    <<builtinsCTF, envCTF, imported, MODE, MySql, DB_HOST, DB_USER, DB_PASS,
      DB_NAME, SESSION_NAME>>

attrVars ==
    <<shim, realData, shimDict, realCalls, lastOp, shimOut, directOut,
      directData>>

\* ------------------------------------------------------------------------
\* Text helpers
\* ------------------------------------------------------------------------
SeqsUpTo(S, n) == UNION {[1..k -> S] : k \in 0..n}

\* characters of query templates
TChars == {"%", "s", "a"}
Templates == SeqsUpTo(TChars, MaxTplLen)

\* characters of the templates given to executemany: "%" and "s" are literal
\* text wherever they do not form a marker
ManyChars == {"%", "s"}
ManyTemplates == SeqsUpTo(ManyChars, MaxManyTplLen)

\* s occurs in t starting at position i
OccursAt(s, t, i) ==
    /\ i >= 1
    /\ i + Len(s) - 1 <= Len(t)
    /\ \A j \in 1..Len(s) : t[i + j - 1] = s[j]

Contains(t, s) == \E i \in 1..(Len(t) + 1) : OccursAt(s, t, i)

Marker == <<"%", "s">>

\* ------------------------------------------------------------------------
\* Parameter values: None, str, int
\* ------------------------------------------------------------------------
NoneV == [t |-> "none", s |-> <<>>, n |-> 0]
StrV(x) == [t |-> "str", s |-> x, n |-> 0]
IntV(k) == [t |-> "int", s |-> <<>>, n |-> k]

\* values offered to execute
ExecValues ==
    {NoneV, IntV(42), StrV(<<"a">>), StrV(<<"O", "'", "B">>), StrV(<<"a", "U">>)}
\* values offered to executemany groups
ManyValues == {NoneV, StrV(<<"a">>)}

\* execute's params argument: absent (None), or a sequence of values
NoParams == [absent |-> TRUE, v |-> <<>>]
Given(ps) == [absent |-> FALSE, v |-> ps]

Digits == <<"0", "1", "2", "3", "4", "5", "6", "7", "8", "9">>

RECURSIVE IntStr(_)
\* str(n) for a non-negative int
IntStr(n) ==
    IF n < 10 THEN <<Digits[n + 1]>>
    ELSE IntStr(n \div 10) \o <<Digits[(n % 10) + 1]>>

\* ------------------------------------------------------------------------
\* FakeCursor._raw_value
\* ------------------------------------------------------------------------
\* a renderer that wraps strings in single quotes
RawValueQuoted(v) ==
    IF v.t = "none" THEN <<"N", "U", "L", "L">>
    ELSE IF v.t = "str" THEN <<"'">> \o v.s \o <<"'">>
    ELSE IntStr(v.n)

\* a renderer that passes strings through the connection's hook, which drops
\* the token it objects to
RawValueSanitized(v) ==
    IF v.t = "none" THEN <<"N", "U", "L", "L">>
    ELSE IF v.t = "str"
         THEN IF kw = "rejectU" THEN SelectSeq(v.s, LAMBDA c : c # "U") ELSE v.s
    ELSE IntStr(v.n)

\* None -> "NULL", everything else -> str(v) verbatim
_raw_value(v) ==
    IF v.t = "none" THEN <<"N", "U", "L", "L">>
    ELSE IF v.t = "str" THEN v.s
    ELSE IntStr(v.n)

\* ------------------------------------------------------------------------
\* FakeCursor._build_sql
\* ------------------------------------------------------------------------
\* len(re.findall(r'(?<!%)%s', query))
CountPlaceholders(q) ==
    Cardinality({i \in 1..Len(q) :
        /\ OccursAt(Marker, q, i)
        /\ (i = 1 \/ q[i - 1] # "%")})

RECURSIVE FirstMarker(_, _)
\* position of the first "%s" at or after i, 0 when there is none
FirstMarker(q, i) ==
    IF i + 1 > Len(q) THEN 0
    ELSE IF OccursAt(Marker, q, i) THEN i
    ELSE FirstMarker(q, i + 1)

RECURSIVE Split(_)
\* query.split("%s")
Split(q) ==
    LET p == FirstMarker(q, 1) IN
    IF p = 0 THEN <<q>>
    ELSE <<SubSeq(q, 1, p - 1)>> \o Split(SubSeq(q, p + 2, Len(q)))

RECURSIVE Interleave(_, _, _, _)
\* the loop  for i in range(placeholders): sql += parts[i] + _raw_value(params[i])
Interleave(parts, ps, i, n) ==
    IF i > n THEN <<>>
    ELSE parts[i] \o _raw_value(ps[i]) \o Interleave(parts, ps, i + 1, n)

\* a builder that truncates or pads instead of raising
BuildSqlNoCheck(q, ps) ==
    LET parts == Split(q)
        n == IF Len(ps) < Len(parts) - 1 THEN Len(ps) ELSE Len(parts) - 1
    IN [ok |-> TRUE, sql |-> Interleave(parts, ps, 1, n) \o parts[Len(parts)]]

\* ok = FALSE stands for the ValueError "placeholder count mismatch"
_build_sql(q, ps) ==
    LET placeholders == CountPlaceholders(q)
        parts == Split(q)
    IN IF placeholders # Len(ps)
       THEN [ok |-> FALSE, sql |-> <<>>]
       ELSE [ok |-> TRUE,
             sql |-> Interleave(parts, ps, 1, placeholders) \o parts[Len(parts)]]


\* the real cursor's answer to one execute: a row count, or it raises
DriverErr == "MySQLdb.Error"
Raises == [ok |-> FALSE, rows |-> 0]
Returns(n) == [ok |-> TRUE, rows |-> n]
RealResponses == {Returns(n) : n \in 0..MaxRows} \cup {Raises}

\* sanitizer keyword values a caller may try: none, or a hook rejecting "U"
Hooks == {"absent", "rejectU"}

ParamSeqs == {Given(ps) : ps \in SeqsUpTo(ExecValues, MaxParams)}
ParamGroups == SeqsUpTo(ManyValues, MaxParams)

CursorInit ==
    /\ kw \in Hooks
    /\ realKw = "unset"
    /\ _conn = "none"
    /\ _cur = "none"
    /\ pc = "idle"
    /\ op = "none"
    /\ query = <<>>
    /\ params = NoParams
    /\ groups = <<>>
    /\ sent = <<>>
    /\ resps = <<>>
    /\ count = 0
    /\ result = 0
    /\ err = "none"

\* connect(*args, **kwargs) -> FakeConnection(*args, **kwargs):
\* every argument goes to MySQLdb.connect, which opens a connection or raises
Connect ==
    /\ _conn = "none"
    /\ realKw' = kw
    /\ \E opened \in BOOLEAN : _conn' = IF opened THEN "open" ELSE "failed"
    /\ UNCHANGED <<kw, _cur, pc, op, query, params, groups, sent, resps, count,
                   result, err, modeVars, attrVars>>

\* FakeConnection.cursor
Cursor ==
    /\ _conn = "open"
    /\ _cur = "none"
    /\ _cur' = "open"
    /\ UNCHANGED <<kw, realKw, _conn, pc, op, query, params, groups, sent,
                   resps, count, result, err, modeVars, attrVars>>

\* a variant of execute that builds also when params is None
ExecuteSqlAlwaysBuild(q, p) ==
    _build_sql(q, p.v)

\* the SQL execute hands to the real cursor
ExecuteSql(q, p) ==
    IF p.absent THEN [ok |-> TRUE, sql |-> q] ELSE _build_sql(q, p.v)

\* FakeCursor.execute
Execute ==
    /\ _cur = "open"
    /\ pc = "idle"
    /\ op' = "execute"
    /\ \E q \in Templates, p \in ParamSeqs \cup {NoParams} :
        /\ query' = q
        /\ params' = p
        /\ LET b == ExecuteSql(q, p) IN
           IF ~b.ok
           THEN /\ pc' = "raised"
                /\ err' = "ValueError"
                /\ UNCHANGED <<sent, resps, result>>
           ELSE \E r \in RealResponses :
                /\ sent' = <<b.sql>>
                /\ resps' = <<r>>
                /\ IF ~r.ok
                   THEN pc' = "raised" /\ err' = DriverErr /\ UNCHANGED result
                   ELSE pc' = "returned" /\ result' = r.rows /\ UNCHANGED err
    /\ UNCHANGED <<kw, realKw, _conn, _cur, groups, count, modeVars, attrVars>>

\* FakeCursor.executemany, entry: count = 0
ExecutemanyStart ==
    /\ _cur = "open"
    /\ pc = "idle"
    /\ op' = "executemany"
    /\ \E q \in ManyTemplates : query' = q
    /\ count' = 0
    /\ pc' = "loop"
    /\ UNCHANGED <<kw, realKw, _conn, _cur, params, groups, sent, resps,
                   result, err, modeVars, attrVars>>

\* a count that keeps only the last answer
LastCount(c, n) == n

\* count += self._cur.execute(sql)
AddCount(c, n) == c + n

\* a loop body that goes on to the next group after a failure
AfterGroupSwallow(b, r) == "loop"

\* where control goes after one group: an exception leaves the loop
AfterGroup(b, r) ==
    IF ~b.ok \/ ~r.ok THEN "raised" ELSE "loop"

\* FakeCursor.executemany, one iteration of  for params in seq_of_params
ExecutemanyNext ==
    /\ pc = "loop"
    /\ Len(groups) < MaxGroups
    /\ \E g \in ParamGroups :
        /\ groups' = Append(groups, g)
        /\ LET b == _build_sql(query, g) IN
           IF ~b.ok
           THEN /\ pc' = AfterGroup(b, Raises)
                /\ err' = "ValueError"
                /\ UNCHANGED <<sent, resps, count>>
           ELSE \E r \in RealResponses :
                /\ pc' = AfterGroup(b, r)
                /\ sent' = Append(sent, b.sql)
                /\ resps' = Append(resps, r)
                /\ IF ~r.ok
                   THEN err' = DriverErr /\ UNCHANGED count
                   ELSE count' = AddCount(count, r.rows) /\ UNCHANGED err
    /\ UNCHANGED <<kw, realKw, _conn, _cur, op, query, params, result,
                   modeVars, attrVars>>

\* FakeCursor.executemany, the iterable is exhausted: return count
ExecutemanyReturn ==
    /\ pc = "loop"
    /\ pc' = "returned"
    /\ result' = count
    /\ UNCHANGED <<kw, realKw, _conn, _cur, op, query, params, groups, sent,
                   resps, count, err, modeVars, attrVars>>

\* ------------------------------------------------------------------------
\* Package import: mode resolution (ctf_sql/__init__.py)
\* ------------------------------------------------------------------------
ModeChars == {"1", "c", "C", "t", "f"}
ModeTexts == SeqsUpTo(ModeChars, MaxModeLen)

\* builtins.CTF_MODE / os.environ["CTF_MODE"]: absent, a text, or an int
Absent == [has |-> FALSE, t |-> "str", s |-> <<>>, n |-> 0]
Text(x) == [has |-> TRUE, t |-> "str", s |-> x, n |-> 0]
IntMode(k) == [has |-> TRUE, t |-> "int", s |-> <<>>, n |-> k]

BuiltinsValues == {Absent} \cup {Text(x) : x \in ModeTexts} \cup {IntMode(0), IntMode(1)}
EnvValues == {Absent} \cup {Text(x) : x \in ModeTexts}

\* str.lower, character by character
LowerChar(c) ==
    IF c = "C" THEN "c" ELSE IF c = "T" THEN "t" ELSE IF c = "F" THEN "f" ELSE c
Lower(x) == [i \in 1..Len(x) |-> LowerChar(x[i])]

\* str(value)
Str(v) == IF v.t = "int" THEN IntStr(v.n) ELSE v.s

\* os.getenv("CTF_MODE", "")
GetEnv == IF envCTF.has THEN envCTF.s ELSE <<>>

\* a resolution that falls back to the environment when the override is empty
ResolveModeOrEnv ==
    IF builtinsCTF.has /\ Str(builtinsCTF) # <<>>
    THEN Lower(Str(builtinsCTF))
    ELSE Lower(GetEnv)

\* the value bound to MODE
ResolveMode ==
    IF builtinsCTF.has THEN Lower(Str(builtinsCTF)) ELSE Lower(GetEnv)

\* MODE in ("1", "ctf")
IsCtf(m) == m \in {<<"1">>, <<"c", "t", "f">>}

FakeDriver == "ctf_sql.fake_MySqldb"
RealDriver == "MySQLdb"

ModeInit ==
    /\ builtinsCTF \in BuiltinsValues
    /\ envCTF \in EnvValues
    /\ imported = FALSE
    /\ MODE = <<>>
    /\ MySql = "unbound"
    /\ DB_HOST = "unbound"
    /\ DB_USER = "unbound"
    /\ DB_PASS = "unbound"
    /\ DB_NAME = "unbound"
    /\ SESSION_NAME = "unbound"

ModeIdle ==
    /\ builtinsCTF = Absent
    /\ envCTF = Absent
    /\ imported = FALSE
    /\ MODE = <<>>
    /\ MySql = "unbound"
    /\ DB_HOST = "unbound"
    /\ DB_USER = "unbound"
    /\ DB_PASS = "unbound"
    /\ DB_NAME = "unbound"
    /\ SESSION_NAME = "unbound"

\* the body of the package, run once at import
Import ==
    /\ ~imported
    /\ imported' = TRUE
    /\ MODE' = ResolveMode
    /\ IF IsCtf(MODE')
       THEN /\ MySql' = FakeDriver
            /\ DB_HOST' = "CTF_DB_HOST"
            /\ DB_USER' = "CTF_DB_USER"
            /\ DB_PASS' = "CTF_DB_PASS"
            /\ DB_NAME' = "CTF_DB_NAME"
            /\ SESSION_NAME' = "CTF_SESSION_NAME"
       ELSE /\ MySql' = RealDriver
            /\ DB_HOST' = "DB_HOST"
            /\ DB_USER' = "DB_USER"
            /\ DB_PASS' = "DB_PASS"
            /\ DB_NAME' = "DB_NAME"
            /\ SESSION_NAME' = "SESSION_NAME"
    /\ UNCHANGED <<builtinsCTF, envCTF, cursorVars, attrVars>>

\* ------------------------------------------------------------------------
\* Attribute access on the shims (FakeCursor, FakeConnection)
\* ------------------------------------------------------------------------
Shims == {"FakeCursor", "FakeConnection"}

\* what each shim class and its instances define themselves
ShimOwn(sh) ==
    IF sh = "FakeCursor"
    THEN {"_cur", "_raw_value", "_build_sql", "execute", "executemany"}
    ELSE {"_conn", "cursor"}

\* special methods a shim class defines for the implicit protocols: none
ShimSpecial(sh) == {}

\* the wrapped real object: data attributes, methods, special methods
RealDataNames(sh) == IF sh = "FakeCursor" THEN {"arraysize"} ELSE {"port"}
RealMethods(sh) ==
    IF sh = "FakeCursor"
    THEN {"fetchone", "fetchall", "close"}
    ELSE {"commit", "rollback", "close"}
RealSpecial(sh) ==
    IF sh = "FakeCursor" THEN {"__iter__", "__enter__"} ELSE {"__enter__"}

AttrNames(sh) ==
    ShimOwn(sh) \cup RealDataNames(sh) \cup RealMethods(sh) \cup RealSpecial(sh)
        \cup {"nosuch"}

Out(kind, name, val) == [kind |-> kind, name |-> name, val |-> val]
NoOp == Out("none", "", 0)
Unset == 0 - 1

\* getattr(real, name)
RealGet(name) ==
    IF name \in DOMAIN realData THEN Out("value", name, realData[name])
    ELSE IF name \in RealMethods(shim) \cup RealSpecial(shim)
         THEN Out("method", name, 0)
         ELSE Out("AttributeError", name, 0)

\* getattr(shim, name): the instance and the class first, __getattr__ last
ShimGet(name) ==
    IF name \in DOMAIN shimDict /\ shimDict[name] # Unset
    THEN Out("value", name, shimDict[name])
    ELSE IF name \in ShimOwn(shim) THEN Out("own", name, 0)
    ELSE RealGet(name)

AttrInit ==
    /\ shim \in Shims
    /\ realData \in [RealDataNames(shim) -> 0..MaxAttrVal]
    /\ shimDict = [n \in RealDataNames(shim) |-> Unset]
    /\ realCalls = <<>>
    /\ lastOp = NoOp
    /\ shimOut = NoOp
    /\ directOut = NoOp
    /\ directData = realData

AttrIdle ==
    /\ shim = "FakeCursor"
    /\ realData = [n \in RealDataNames("FakeCursor") |-> 0]
    /\ shimDict = [n \in RealDataNames("FakeCursor") |-> Unset]
    /\ realCalls = <<>>
    /\ lastOp = NoOp
    /\ shimOut = NoOp
    /\ directOut = NoOp
    /\ directData = realData

\* an implicit protocol use (for row in cursor, with conn: ...): Python looks
\* the special method up on the type of the object, where __getattr__ of the
\* instance is not consulted
AttrImplicit ==
    /\ Len(realCalls) < MaxCalls
    /\ \E name \in RealSpecial(shim) :
        /\ lastOp' = Out("implicit", name, 0)
        /\ directOut' = Out("called", name, 0)
        /\ IF name \in ShimSpecial(shim)
           THEN /\ shimOut' = Out("called", name, 0)
                /\ realCalls' = Append(realCalls, name)
           ELSE /\ shimOut' = Out("TypeError", name, 0)
                /\ UNCHANGED realCalls
    /\ directData' = realData
    /\ UNCHANGED <<shim, realData, shimDict, cursorVars, modeVars>>

\* shim.name
AttrGet ==
    \E name \in AttrNames(shim) :
        /\ lastOp' = Out("get", name, 0)
        /\ shimOut' = ShimGet(name)
        /\ directOut' = RealGet(name)
        /\ directData' = realData
        /\ UNCHANGED <<shim, realData, shimDict, realCalls, cursorVars, modeVars>>

\* shim.name(): the attribute is fetched, then called
AttrCall ==
    /\ Len(realCalls) < MaxCalls
    /\ \E name \in RealMethods(shim) :
        /\ lastOp' = Out("call", name, 0)
        /\ shimOut' = Out("called", name, 0)
        /\ directOut' = Out("called", name, 0)
        /\ realCalls' = Append(realCalls, name)
        /\ directData' = realData
        /\ UNCHANGED <<shim, realData, shimDict, cursorVars, modeVars>>

\* shim.name = v: the shim classes define no __setattr__, the value lands in
\* the shim instance
AttrSet ==
    \E name \in RealDataNames(shim), v \in 0..MaxAttrVal :
        /\ lastOp' = Out("set", name, v)
        /\ shimDict' = [shimDict EXCEPT ![name] = v]
        /\ shimOut' = Out("set", name, v)
        /\ directOut' = Out("set", name, v)
        /\ directData' = [realData EXCEPT ![name] = v]
        /\ UNCHANGED <<shim, realData, realCalls, cursorVars, modeVars>>

\* ------------------------------------------------------------------------
\* Specifications
\* ------------------------------------------------------------------------
vars == <<cursorVars, modeVars, attrVars>>

\* a cursor of the shim, connect given no sanitizer keyword
Init == CursorInit /\ kw = "absent" /\ ModeIdle /\ AttrIdle

\* one execute
Next ==
    \/ Connect
    \/ Cursor
    \/ Execute

Spec == Init /\ [][Next]_vars

\* one executemany
NextMany ==
    \/ Connect
    \/ Cursor
    \/ ExecutemanyStart
    \/ ExecutemanyNext
    \/ ExecutemanyReturn

SpecMany == Init /\ [][NextMany]_vars

\* one execute on a cursor of the shim, connect given a sanitizer keyword
InitHook == CursorInit /\ kw = "rejectU" /\ ModeIdle /\ AttrIdle

NextHook ==
    \/ Connect
    \/ Cursor
    \/ Execute

SpecHook == InitHook /\ [][NextHook]_vars

\* the import of the package, from every setting of the two inputs
InitMode == CursorInit /\ kw = "absent" /\ ModeInit /\ AttrIdle

NextMode == Import

SpecMode == InitMode /\ [][NextMode]_vars

NextAttr ==
    \/ AttrImplicit
    \/ AttrGet
    \/ AttrCall
    \/ AttrSet

\* accesses to a shim other than execute and executemany
InitAttr == CursorInit /\ kw = "absent" /\ ModeIdle /\ AttrInit

SpecAttr == InitAttr /\ [][NextAttr]_vars

\* ------------------------------------------------------------------------
\* Properties
\* ------------------------------------------------------------------------
\* a placeholder marker at position i of q that no '%' precedes
UnescapedAt(q, i) == OccursAt(Marker, q, i) /\ (i = 1 \/ q[i - 1] # "%")
\* a marker at position i of q that a '%' precedes
EscapedAt(q, i) == OccursAt(Marker, q, i) /\ i > 1 /\ q[i - 1] = "%"
UnescapedCount(q) == Cardinality({i \in 1..Len(q) : UnescapedAt(q, i)})
HasEscaped(q) == \E i \in 1..Len(q) : EscapedAt(q, i)
EscapedMarker == <<"%", "%", "s">>

RECURSIVE CutAndFill(_, _, _, _)
\* q from position i on, cut at its unescaped markers only, the k-th and later
\* values of ps filled in left to right, all other text kept
CutAndFill(q, ps, i, k) ==
    IF i > Len(q) THEN <<>>
    ELSE IF UnescapedAt(q, i)
         THEN _raw_value(ps[k]) \o CutAndFill(q, ps, i + 2, k + 1)
         ELSE <<q[i]>> \o CutAndFill(q, ps, i + 1, k)

ExecuteDone == op = "execute" /\ pc \in {"returned", "raised"}

\* execute was called with a parameter sequence as long as the template has
\* unescaped markers
ExecuteMatched ==
    /\ ExecuteDone
    /\ ~params.absent
    /\ Len(params.v) = UnescapedCount(query)

\* C1: for a template with N unescaped markers and N parameters, the SQL built
\* is the template cut at exactly its unescaped markers, each marker replaced
\* by the rendering of its parameter, no template text dropped or reordered.
C1_CutAtUnescapedMarkers ==
    ExecuteMatched =>
        /\ Len(sent) = 1
        /\ sent[1] = CutAndFill(query, params.v, 1, 1)

\* C3: with escaped markers in the template and as many parameters as
\* unescaped markers, the build succeeds and the text of the escaped marker
\* is in the SQL that reaches the real cursor.
C3_EscapedMarkerKept ==
    (ExecuteMatched /\ HasEscaped(query)) =>
        /\ err # "ValueError"
        /\ Len(sent) = 1
        /\ Contains(sent[1], EscapedMarker)

\* the template has one marker, unescaped, and execute got one string for it
OneStringCase ==
    /\ ExecuteDone
    /\ ~params.absent
    /\ Len(params.v) = 1
    /\ params.v[1].t = "str"
    /\ Cardinality({i \in 1..Len(query) : OccursAt(Marker, query, i)}) = 1
    /\ UnescapedCount(query) = 1

MarkerPos == CHOOSE i \in 1..Len(query) : OccursAt(Marker, query, i)
Before == SubSeq(query, 1, MarkerPos - 1)
After == SubSeq(query, MarkerPos + 2, Len(query))

C4_MismatchRaisesBeforeSend ==
    (ExecuteDone /\ ~params.absent /\ Len(params.v) # UnescapedCount(query)) =>
        /\ pc = "raised"
        /\ err = "ValueError"
        /\ sent = <<>>
        /\ resps = <<>>

C4_Witness ==
    /\ ExecuteDone
    /\ ~params.absent
    /\ UnescapedCount(query) = 0
    /\ Len(params.v) > 0
    /\ pc = "raised"

\* the text handed to the hook contains the rejected token
Rejected(x) == Contains(x, <<"U">>)

BuiltUpTo(n) == [i \in 1..n |-> _build_sql(query, groups[i]).sql]

\* the first n groups of the executemany call, the template having m
\* unescaped markers, neither failed to build nor to execute
GroupsPassed(n, m) ==
    \A i \in 1..n :
        /\ Len(groups[i]) = m
        /\ i <= Len(resps)
        /\ resps[i].ok

\* C6 as stated: when group k is the first to fail, the real cursor has been
\* sent exactly the SQL of the groups before k, and the error is group k's.
C6_SentBeforeFailing ==
    (op = "executemany" /\ pc = "raised") =>
        LET k == Len(groups) IN
        /\ k >= 1
        /\ GroupsPassed(k - 1, UnescapedCount(query))
        /\ sent = BuiltUpTo(k - 1)

\* C6 as amended: the first failure ends the call with that group's error;
\* the real cursor has been sent the SQL of the groups before k, once each and
\* in order, followed by the SQL of group k itself when it is the real
\* cursor that failed on group k; no later group is taken.
C6_FirstFailureAborts ==
    /\ (op = "executemany" /\ pc = "loop") =>
           /\ GroupsPassed(Len(groups), UnescapedCount(query))
           /\ err = "none"
    /\ (op = "executemany" /\ pc = "raised") =>
        LET k == Len(groups)
            m == UnescapedCount(query)
        IN
        /\ k >= 1
        /\ GroupsPassed(k - 1, m)
        /\ IF Len(groups[k]) # m
           THEN /\ err = "ValueError"
                /\ sent = BuiltUpTo(k - 1)
                /\ Len(resps) = k - 1
           ELSE /\ err = DriverErr
                /\ sent = BuiltUpTo(k)
                /\ Len(resps) = k
                /\ ~resps[k].ok

C6_Witness ==
    /\ op = "executemany"
    /\ pc = "raised"
    /\ err = DriverErr
    /\ Len(groups) = 2
    /\ Len(sent) = 2
    /\ groups[1] # groups[2]

RECURSIVE SumRows(_)
SumRows(rs) == IF rs = <<>> THEN 0 ELSE Head(rs).rows + SumRows(Tail(rs))

\* C7: when no group fails, executemany calls the real cursor once per group,
\* in order, with the SQL built from that group, and returns the sum of the
\* row counts; for an empty sequence it makes no call and returns 0.
C7_OncePerGroupAndSum ==
    (op = "executemany" /\ pc = "returned") =>
        /\ sent = BuiltUpTo(Len(groups))
        /\ Len(resps) = Len(groups)
        /\ GroupsPassed(Len(groups), UnescapedCount(query))
        /\ result = SumRows(resps)
        /\ (groups = <<>>) => (sent = <<>> /\ result = 0)

C7_Witness ==
    /\ op = "executemany"
    /\ pc = "returned"
    /\ Len(groups) >= 2
    /\ groups[1] # groups[2]
    /\ resps[1].rows = 1
    /\ resps[2].rows = 1
    /\ result >= 2

\* C8: execute with params absent passes the query to the real cursor
\* character for character in exactly one call, returns what that call
\* returned, and lets the real cursor's error through.
C8_NoParamsForwarded ==
    (ExecuteDone /\ params.absent) =>
        /\ sent = <<query>>
        /\ Len(resps) = 1
        /\ resps[1].ok => (pc = "returned" /\ result = resps[1].rows)
        /\ ~resps[1].ok => (pc = "raised" /\ err = DriverErr)

C8_Witness ==
    /\ ExecuteDone
    /\ params.absent
    /\ HasEscaped(query)
    /\ pc = "returned"
    /\ result = 1

\* C9: every capability the shim does not define itself behaves on the shim
\* as it does on the wrapped real object: same outcome, same effect on the
\* real object.
C9_ForwardedIdentically ==
    (lastOp.kind # "none" /\ lastOp.name \notin ShimOwn(shim)) =>
        /\ shimOut = directOut
        /\ realData = directData

\* the value the claim names: the override whenever it exists, else the
\* environment variable, else empty
ResolvedValue ==
    IF builtinsCTF.has THEN Str(builtinsCTF)
    ELSE IF envCTF.has THEN envCTF.s
    ELSE <<>>

CtfSet ==
    /\ DB_HOST = "CTF_DB_HOST"
    /\ DB_USER = "CTF_DB_USER"
    /\ DB_PASS = "CTF_DB_PASS"
    /\ DB_NAME = "CTF_DB_NAME"
    /\ SESSION_NAME = "CTF_SESSION_NAME"

ProductionSet ==
    /\ DB_HOST = "DB_HOST"
    /\ DB_USER = "DB_USER"
    /\ DB_PASS = "DB_PASS"
    /\ DB_NAME = "DB_NAME"
    /\ SESSION_NAME = "SESSION_NAME"

====
